---- MODULE Spec2Model ----
(***************************************************************************)
(* Model of the horoscope crawler (scripts/crawler module) and of the      *)
(* KakaoTalk sender script (send_horoscope_kakao.py).                      *)
(*                                                                         *)
(* Text is a sequence of one-character strings, so that strip() and        *)
(* replace() are computed character by character.  The module is kept in   *)
(* ASCII: the full-width colon is the character "FWCOLON", and the sign    *)
(* names are written in Latin letters (JP names end in "za", KR names in   *)
(* "jari").  An optional value is None (<<>>) or Some(v) (<<v>>).          *)
(***************************************************************************)
EXTENDS Integers, Sequences, FiniteSets, TLC

VARIABLES pc, quits, pending, html, rank_box, detail, ranking_rows,
          detail_rows, zodiak, row, extracted, tr_failed, col, message,
          access, sends, delivered, cause, parent, label_cls, label_out

vars == <<pc, quits, pending, html, rank_box, detail, ranking_rows,
          detail_rows, zodiak, row, extracted, tr_failed, col, message,
          access, sends, delivered, cause, parent, label_cls, label_out>>

None == <<>>
Some(v) == <<v>>

\* ---------------------------------------------------------------- bounds
\* Longest text node, in characters, of a generated read-area.
MaxTextLen == 2
\* Most child nodes of a generated read-area.
MaxNodes == 3
\* Most <li> of a generated short ranking list, most boxes of a short
\* detail list, and most entries that follow the twelve of a long list.
MaxLi == 2
MaxBoxes == 2
MaxExtra == 1
\* Most <img> in a lucky-box.
MaxImgs == 2

\* ------------------------------------------------------------------ text
Whitespace == {" "}

RECURSIVE lstrip(_)
lstrip(s) ==
    IF s # <<>> /\ Head(s) \in Whitespace THEN lstrip(Tail(s)) ELSE s

RECURSIVE rstrip(_)
rstrip(s) ==
    IF s # <<>> /\ s[Len(s)] \in Whitespace
    THEN rstrip(SubSeq(s, 1, Len(s) - 1)) ELSE s

\* str.strip()
strip(s) == rstrip(lstrip(s))

\* str.replace(c, "")
replace(s, c) == SelectSeq(s, LAMBDA x : x # c)

\* str(None)
NoneStr == <<"N", "o", "n", "e">>

\* ------------------------------------------------- nodes of a read-area
\* A child node of the read-area: a text node, a <br/>, or a <span>.
\* string is bs4's .string: the node itself for a text node, the only child
\* of a tag that has exactly one, None otherwise.  text is get_text().
TextNode(s) == [kind |-> "text", cls |-> "", string |-> Some(s), text |-> s]
Br == [kind |-> "br", cls |-> "", string |-> None, text |-> <<>>]
Span(c, s) == [kind |-> "span", cls |-> c, string |-> Some(s), text |-> s]
\* <span>a<b>b</b></span>: two children, so .string is None
MixedSpan(c, s) == [kind |-> "span", cls |-> c, string |-> None, text |-> s]

\* parent.find("span", class_=label_cls): index of the first one, 0 if none
find_span(nodes, c) ==
    LET hits == {i \in 1..Len(nodes) :
                    nodes[i].kind = "span" /\ nodes[i].cls = c}
    IN  IF hits = {} THEN 0
        ELSE CHOOSE i \in hits : \A j \in hits : i <= j

\* str(getattr(sib, "string", sib)).strip()
sib_str(sib) ==
    strip(IF sib.string = None THEN NoneStr ELSE sib.string[1])

\* _text_after_label(parent, label_cls); parent is given by its child nodes
_text_after_label(nodes, c) ==
    LET at == find_span(nodes, c)
        ok(i) == LET s == sib_str(nodes[i])
                 IN  /\ s # <<>> /\ s # <<":">> /\ s # <<"FWCOLON">>
                     /\ s # <<"<br/>">>
        hits == {i \in (at + 1)..Len(nodes) : ok(i)}
    IN  IF at = 0 \/ hits = {} THEN <<>>
        ELSE LET i == CHOOSE i \in hits : \A j \in hits : i <= j
             IN  strip(replace(replace(sib_str(nodes[i]), "FWCOLON"), ":"))

\* _count_star(score_box, li_cls) on one category of the score box:
\* li is "the li of that class exists", lucky "it holds a p.lucky-box",
\* imgs the number of <img> in that p
_count_star(cat) ==
    IF ~cat.li THEN 0
    ELSE IF ~cat.lucky THEN 0
    ELSE cat.imgs

\* ------------------------------------------------------------ dictionaries
SignsJP == <<"ohitsujiza", "oushiza", "futagoza", "kaniza", "shishiza",
             "otomeza", "tenbinza", "sasoriza", "iteza", "yagiza",
             "mizugameza", "uoza">>
SignsKR == <<"yangjari", "hwangsojari", "ssangdungijari", "gejari",
             "sajajari", "cheonyeojari", "cheonchingjari", "jeongaljari",
             "gungsujari", "yeomsojari", "mulbyeongjari", "mulgogijari">>
SignIds == <<"ohitsuji", "ousi", "futago", "kani", "sisi", "otome",
             "tenbin", "sasori", "ite", "yagi", "mizugame", "uo">>
\* Python's None where a name or an id is expected
NoneName == "None"

lookup(keys, vals, k) ==
    IF \E i \in 1..Len(keys) : keys[i] = k
    THEN vals[CHOOSE i \in 1..Len(keys) : keys[i] = k]
    ELSE NoneName

\* jp_to_kr.get(jp_name)
jp_to_kr(jp_name) == lookup(SignsJP, SignsKR, jp_name)

\* the dictionary with the key "ousi" misspelt
zodiak_eng_misspelt(zid) ==
    lookup([SignIds EXCEPT ![2] = "oushi"], SignsKR, zid)

\* zodiak_eng.get(zid)
zodiak_eng(zid) == lookup(SignIds, SignsKR, zid)

\* the slice [:12] of both passes
Cap == 12

Min(a, b) == IF a < b THEN a ELSE b

RECURSIVE Flatten(_)
Flatten(ss) == IF ss = <<>> THEN <<>> ELSE Head(ss) \o Flatten(Tail(ss))

\* --------------------------------------------------------------- markup
\* <li>: span is the text of its own <span> (NoneName: it has none), nested
\* the <li> elements of a list inside it.
Li(name, nested) == [span |-> name, nested |-> nested]

\* rank_box.find_all("li"): every descendant <li>, in document order
find_all_li(lis) ==
    Flatten([i \in 1..Len(lis) |-> <<lis[i]>> \o lis[i].nested])

\* li.find("span") and span.get_text(strip=True): the first <span> below the
\* <li>, its own or else one of a nested <li>
li_jp_name(li) ==
    IF li.span # NoneName THEN li.span
    ELSE LET inner == SelectSeq(li.nested, LAMBDA n : n.span # NoneName)
         IN  IF inner = <<>> THEN NoneName ELSE inner[1].span

\* 1) the ranking pass
ranking_pass(lis) ==
    LET all == find_all_li(lis)
    IN  [i \in 1..Min(Cap, Len(all)) |->
            [rank |-> i, jp |-> li_jp_name(all[i]),
             kr |-> jp_to_kr(li_jp_name(all[i]))]]

\* f"{BASE_URL}#{zid}" if zid else ""
make_link(zid) == IF zid # NoneName THEN <<"BASE_URL", "#", zid>> ELSE <<>>

\* one iteration of the detail pass
detail_row(box) ==
    LET zid == box.id
        ra == box.read_area
        sc == box.score
        star(c) == IF sc = None THEN 0 ELSE _count_star(sc[1][c])
    IN  [sign |-> zodiak_eng(zid),
         read |-> IF ra = None \/ ra[1].p = None THEN <<>>
                  ELSE strip(ra[1].p[1]),
         color |-> IF ra = None THEN <<>>
                   ELSE _text_after_label(ra[1].nodes, "lucky-color-txt"),
         key |-> IF ra = None THEN <<>>
                 ELSE _text_after_label(ra[1].nodes, "key-txt"),
         money |-> star("money"), love |-> star("love"),
         work |-> star("work"), health |-> star("health"),
         link |-> make_link(zid)]

\* 2) the detail pass
detail_pass(boxes) ==
    [i \in 1..Min(Cap, Len(boxes)) |-> detail_row(boxes[i])]

\* One row of pd.merge(..., how="left"): the ranking row r with the detail
\* row d, or with NaN (None) in every detail column when d is None.
merged_row(r, d) ==
    IF d = None
    THEN [rank |-> r.rank, sign |-> r.kr, link |-> None, read |-> None,
          color |-> None, key |-> None, money |-> None, love |-> None,
          work |-> None, health |-> None]
    ELSE [rank |-> r.rank, sign |-> r.kr, link |-> Some(d[1].link),
          read |-> Some(d[1].read), color |-> Some(d[1].color),
          key |-> Some(d[1].key), money |-> Some(d[1].money),
          love |-> Some(d[1].love), work |-> Some(d[1].work),
          health |-> Some(d[1].health)]

\* The detail rows pandas joins to the ranking row r: those with an equal
\* key, and a null key equals a null key.
matches(r, drows) == SelectSeq(drows, LAMBDA d : d.sign = r.kr)

\* 3) pd.merge(ranking_df[...], detail_df, how="left"), the key order of the
\* left side kept; defined for non-empty frames
merge(rrows, drows) ==
    Flatten([i \in 1..Len(rrows) |->
        LET m == matches(rrows[i], drows)
        IN  IF m = <<>> THEN <<merged_row(rrows[i], None)>>
            ELSE [j \in 1..Len(m) |-> merged_row(rrows[i], Some(m[j]))]])

\* ------------------------------------------------------- generated markup
SeqsUpTo(S, n) == UNION {[1..k -> S] : k \in 0..n}

Chars == {"a", ":", "FWCOLON", " "}
\* the text nodes: non-empty, and one whose text is literally "<br/>"
Texts == (SeqsUpTo(Chars, MaxTextLen) \ {<<>>}) \cup {<<"<br/>">>}
NodeKinds ==
    {TextNode(t) : t \in Texts}
    \cup {Br, Span("lucky-color-txt", <<"L">>), Span("key-txt", <<"K">>),
          MixedSpan("note", <<"a">>)}
Parents == SeqsUpTo(NodeKinds, MaxNodes)
LabelClasses == {"lucky-color-txt", "key-txt"}

Cat(li, lucky, imgs) == [li |-> li, lucky |-> lucky, imgs |-> imgs]
Box(zid, ra, sc) == [id |-> zid, read_area |-> ra, score |-> sc]

FullRead ==
    Some([p |-> Some(<<" ", "a">>),
          nodes |-> <<Span("lucky-color-txt", <<"L">>),
                      TextNode(<<"FWCOLON", "a">>), Br,
                      Span("key-txt", <<"K">>),
                      TextNode(<<":", " ", "a">>)>>])
\* no narrative paragraph, a color label with no value, no key label
SparseRead ==
    Some([p |-> None,
          nodes |-> <<Span("lucky-color-txt", <<"L">>),
                      TextNode(<<"FWCOLON">>), Br>>])
FullScore ==
    Some([money |-> Cat(TRUE, TRUE, MaxImgs), love |-> Cat(TRUE, TRUE, 0),
          work |-> Cat(TRUE, FALSE, 0), health |-> Cat(FALSE, FALSE, 0)])

\* "hebi" is in no dictionary; NoneName is a box without an id attribute
BoxKinds ==
    {Box("ousi", FullRead, FullScore), Box("ousi", SparseRead, None),
     Box("ohitsuji", FullRead, FullScore), Box("hebi", SparseRead, FullScore),
     Box(NoneName, None, None)}
ExtraBoxes == {Box("ousi", SparseRead, None), Box("hebi", FullRead, None)}

\* "hebitsukaiza" is in no dictionary; NoneName is an <li> without a <span>
LiKinds ==
    {Li("oushiza", <<>>), Li("hebitsukaiza", <<>>), Li(NoneName, <<>>),
     Li("ohitsujiza", <<Li("oushiza", <<>>)>>),
     Li(NoneName, <<Li("ohitsujiza", <<>>)>>)}
ExtraLis == {Li("oushiza", <<>>), Li("hebitsukaiza", <<>>)}

\* the twelve signs once each, starting at the r-th
Rot(seq, r) == [i \in 1..Len(seq) |-> seq[((i - 1 + r) % Len(seq)) + 1]]

LongLis ==
    {[i \in 1..Len(SignsJP) |-> Li(Rot(SignsJP, r)[i], <<>>)] \o x :
        r \in 0..(Len(SignsJP) - 1), x \in SeqsUpTo(ExtraLis, MaxExtra)}
LongBoxes ==
    {[i \in 1..Len(SignIds) |->
        IF i % 2 = 1 THEN Box(Rot(SignIds, r)[i], FullRead, FullScore)
        ELSE Box(Rot(SignIds, r)[i], None, None)] \o x :
        r \in 0..(Len(SignIds) - 1), x \in SeqsUpTo(ExtraBoxes, MaxExtra)}

\* The rendered page: rank_box the <li> children of ul.rank-box and detail
\* the div.seiza-box blocks of div.seiza-area, each None when the container
\* is not in the page.
RankBoxes == {None} \cup {Some(l) : l \in SeqsUpTo(LiKinds, MaxLi) \cup LongLis}
Details == {None} \cup {Some(b) : b \in SeqsUpTo(BoxKinds, MaxBoxes) \cup LongBoxes}
Htmls == [rank_box : RankBoxes, detail : Details]

\* ------------------------------------------------------------- fetch_html
Abort(c) == pc' = "aborted" /\ cause' = c

\* module level: assert KAKAO_CLIENT_ID and KAKAO_REFRESH_TOKEN
import_module ==
    /\ pc = "import"
    /\ \/ pc' = "main" /\ cause' = cause
       \/ Abort("env")
    /\ UNCHANGED <<quits, pending, html, rank_box, detail, ranking_rows,
                   detail_rows, zodiak, row, extracted, tr_failed, col,
                   message, access, sends, delivered, parent, label_cls,
                   label_out>>

\* driver = _build_driver(headless), before the try: no browser if it raises
build_driver ==
    /\ pc = "main"
    /\ \/ pc' = "get" /\ cause' = cause
       \/ Abort("launch")
    /\ UNCHANGED <<quits, pending, html, rank_box, detail, ranking_rows,
                   detail_rows, zodiak, row, extracted, tr_failed, col,
                   message, access, sends, delivered, parent, label_cls,
                   label_out>>

FetchRest == <<quits, rank_box, detail, ranking_rows, detail_rows, zodiak,
               row, extracted, tr_failed, col, message, access, sends,
               delivered, cause, parent, label_cls, label_out>>

\* driver.get outside any try/finally: its exception leaves at once
driver_get_no_finally ==
    /\ pc = "get"
    /\ \/ pc' = "sleep" /\ pending' = pending /\ cause' = cause
       \/ pc' = "aborted" /\ pending' = "raise" /\ cause' = "fetch"
    /\ UNCHANGED <<quits, html, rank_box, detail, ranking_rows, detail_rows,
                   zodiak, row, extracted, tr_failed, col, message, access,
                   sends, delivered, parent, label_cls, label_out>>

\* driver.get(url), inside the try
driver_get ==
    /\ pc = "get"
    /\ \/ pc' = "sleep" /\ pending' = pending
       \/ pc' = "finally" /\ pending' = "raise"
    /\ UNCHANGED html
    /\ UNCHANGED FetchRest

\* time.sleep(2); an interrupt is the one way it raises
sleep ==
    /\ pc = "sleep"
    /\ \/ pc' = "page_source" /\ pending' = pending
       \/ pc' = "finally" /\ pending' = "raise"
    /\ UNCHANGED html
    /\ UNCHANGED FetchRest

\* return driver.page_source: the value is kept while the finally runs
page_source ==
    /\ pc = "page_source"
    /\ \/ \E h \in Htmls :
            pc' = "finally" /\ pending' = "return" /\ html' = Some(h)
       \/ pc' = "finally" /\ pending' = "raise" /\ html' = html
    /\ UNCHANGED FetchRest

\* finally: driver.quit(); then the return or the exception goes on, and an
\* exception of quit() itself replaces either
driver_quit ==
    /\ pc = "finally"
    /\ quits' = quits + 1
    /\ \/ pending = "return" /\ pc' = "parse" /\ cause' = cause
          /\ html' = html
       \/ pending = "raise" /\ Abort("fetch") /\ html' = html
       \/ Abort("fetch") /\ html' = None
    /\ pending' = "none"
    /\ UNCHANGED <<rank_box, detail, ranking_rows, detail_rows, zodiak, row,
                   extracted, tr_failed, col, message, access, sends,
                   delivered, parent, label_cls, label_out>>

\* ----------------------------------------------------------- parse_zodiac
ParseRest == <<quits, pending, row, extracted, tr_failed, col, message,
               access, sends, delivered, parent, label_cls, label_out>>

\* soup.find of the two containers; ValueError when one is None
find_containers ==
    /\ pc = "parse"
    /\ IF html[1].rank_box = None \/ html[1].detail = None
       THEN /\ Abort("structure")
            /\ UNCHANGED <<rank_box, detail>>
       ELSE /\ pc' = "ranking" /\ cause' = cause
            /\ rank_box' = html[1].rank_box
            /\ detail' = html[1].detail
    /\ UNCHANGED <<html, ranking_rows, detail_rows, zodiak>>
    /\ UNCHANGED ParseRest

ranking_loop ==
    /\ pc = "ranking"
    /\ ranking_rows' = ranking_pass(rank_box[1])
    /\ pc' = "detail"
    /\ UNCHANGED <<html, rank_box, detail, detail_rows, zodiak, cause>>
    /\ UNCHANGED ParseRest

detail_loop ==
    /\ pc = "detail"
    /\ detail_rows' = detail_pass(detail[1])
    /\ pc' = "merge"
    /\ UNCHANGED <<html, rank_box, detail, ranking_rows, zodiak, cause>>
    /\ UNCHANGED ParseRest

\* ranking_df[["..."]] and pd.merge: a frame built from no rows has no
\* columns, and selecting or joining on a column it lacks raises KeyError
merge_frames ==
    /\ pc = "merge"
    /\ IF ranking_rows = <<>> \/ detail_rows = <<>>
       THEN Abort("keyerror") /\ zodiak' = zodiak
       ELSE /\ zodiak' = Some(merge(ranking_rows, detail_rows))
            /\ pc' = "parsed" /\ cause' = cause
    /\ UNCHANGED <<html, rank_box, detail, ranking_rows, detail_rows>>
    /\ UNCHANGED ParseRest

\* --------------------------------------------------------------- main
\* what MyMemoryTranslator(...).translate(text) may return
TranslatorOutputs == {<<"k">>, <<" ", "k", " ">>}
\* the outcome of one call: None (it raised) or Some(output)
TranslatorResults == {None} \cup {Some(o) : o \in TranslatorOutputs}

\* the except branch returning an empty string
translate_text_drops_text(text, res) ==
    IF text = <<>> THEN text
    ELSE IF res = None THEN <<>>
    ELSE strip(res[1])

\* translate_text(text) when the translator call ends as res
translate_text(text, res) ==
    IF text = <<>> THEN text
    ELSE IF res = None THEN text
    ELSE strip(res[1])

\* for col in ["unse", "haengun-ui saek", "haengun-ui mulgeon"]
TranslatedCols == <<"read", "color", "key">>

Target == "hwangsojari"

\* stars(n): int(NaN) raises and gives 0
stars(cell) ==
    LET n == IF cell = None THEN 0 ELSE cell[1]
    IN  IF n > 0 THEN [i \in 1..n |-> "*"] ELSE <<"-">>

\* build_message_from_row(row): (text, link)
build_message_from_row(r) ==
    [rank |-> r.rank, sign |-> r.sign, body |-> strip(r.read[1]),
     color |-> r.color, key |-> r.key, money |-> stars(r.money),
     love |-> stars(r.love), work |-> stars(r.work),
     health |-> stars(r.health), link |-> r.link]

MainRest == <<quits, pending, parent, label_cls, label_out>>

\* sel = df.loc[df[sign] == target]; RuntimeError when empty, else
\* row = sel.iloc[0].copy().  get_zodiak_data has returned: the markup and
\* the frames of parse_zodiac are gone, and df is not read again.
select_row ==
    /\ pc = "parsed"
    /\ LET sel == SelectSeq(zodiak[1], LAMBDA r : r.sign = Target)
       IN  IF sel = <<>>
           THEN Abort("selection") /\ UNCHANGED <<row, extracted, col>>
           ELSE /\ row' = Some(sel[1]) /\ extracted' = Some(sel[1])
                /\ col' = 1
                /\ pc' = "translate" /\ cause' = cause
    /\ html' = None /\ rank_box' = None /\ detail' = None
    /\ ranking_rows' = <<>> /\ detail_rows' = <<>> /\ zodiak' = None
    /\ UNCHANGED <<tr_failed, message, access, sends, delivered>>
    /\ UNCHANGED MainRest

\* one iteration of the translation loop
translate_col ==
    /\ pc = "translate"
    /\ LET c == TranslatedCols[col]
       IN  IF row[1][c] = None
           THEN UNCHANGED <<row, tr_failed>>
           ELSE \E res \in TranslatorResults :
                /\ row' = Some([row[1] EXCEPT
                                 ![c] = Some(translate_text(row[1][c][1], res))])
                /\ tr_failed' = IF res = None /\ row[1][c][1] # <<>>
                                THEN tr_failed \cup {c} ELSE tr_failed
    /\ IF col < Len(TranslatedCols)
       THEN col' = col + 1 /\ pc' = pc
       ELSE col' = 0 /\ pc' = "build"
    /\ UNCHANGED <<html, rank_box, detail, ranking_rows, detail_rows, zodiak,
                   extracted, message, access, sends, delivered, cause>>
    /\ UNCHANGED MainRest

\* text, web_url = build_message_from_row(row); (NaN or "").strip() raises
\* AttributeError
build_message ==
    /\ pc = "build"
    /\ IF row[1].read = None
       THEN Abort("build") /\ message' = message
       ELSE /\ message' = Some(build_message_from_row(row[1]))
            /\ pc' = "refresh" /\ cause' = cause
    /\ UNCHANGED <<html, rank_box, detail, ranking_rows, detail_rows, zodiak,
                   row, extracted, tr_failed, col, access, sends, delivered>>
    /\ UNCHANGED MainRest

\* the missing-token test left out: an empty token is returned and used
refresh_access_token_sends_without_token ==
    /\ pc = "refresh"
    /\ \/ Abort("token") /\ access' = access
       \/ access' = Some("") /\ pc' = "send" /\ cause' = cause
       \/ access' = Some("tok") /\ pc' = "send" /\ cause' = cause
    /\ UNCHANGED <<html, rank_box, detail, ranking_rows, detail_rows, zodiak,
                   row, extracted, tr_failed, col, message, sends, delivered>>
    /\ UNCHANGED MainRest

\* access = refresh_access_token(): the request or raise_for_status raises,
\* or the answer holds no access_token (RuntimeError), or it holds one
refresh_access_token ==
    /\ pc = "refresh"
    /\ \/ Abort("token") /\ access' = access
       \/ Abort("token") /\ access' = Some("")
       \/ access' = Some("tok") /\ pc' = "send" /\ cause' = cause
    /\ UNCHANGED <<html, rank_box, detail, ranking_rows, detail_rows, zodiak,
                   row, extracted, tr_failed, col, message, sends, delivered>>
    /\ UNCHANGED MainRest

\* res = send_kakao_memo(access, text, web_url): the request raises (sent
\* or not, nobody knows), or answers; the answer is returned whatever it is
send_kakao_memo ==
    /\ pc = "send"
    /\ sends' = sends + 1
    /\ \/ Abort("send") /\ delivered' \in {delivered, delivered + 1}
       \/ pc' = "print" /\ cause' = cause /\ delivered' = delivered + 1
       \/ pc' = "print" /\ cause' = cause /\ delivered' = delivered
    /\ UNCHANGED <<html, rank_box, detail, ranking_rows, detail_rows, zodiak,
                   row, extracted, tr_failed, col, message, access>>
    /\ UNCHANGED MainRest

\* print("Kakao response:", res); main returns, exit status 0
print_response ==
    /\ pc = "print"
    /\ pc' = "done"
    /\ UNCHANGED <<html, rank_box, detail, ranking_rows, detail_rows, zodiak,
                   row, extracted, tr_failed, col, message, access, sends,
                   delivered, cause>>
    /\ UNCHANGED MainRest

\* ------------------------------------------------------- specifications
Init ==
    /\ pc = "import" /\ quits = 0 /\ pending = "none" /\ html = None
    /\ rank_box = None /\ detail = None
    /\ ranking_rows = <<>> /\ detail_rows = <<>> /\ zodiak = None
    /\ row = None /\ extracted = None /\ tr_failed = {} /\ col = 0
    /\ message = None /\ access = None /\ sends = 0 /\ delivered = 0
    /\ cause = "none"
    /\ parent = <<>> /\ label_cls = "" /\ label_out = None

Next ==
    \/ import_module \/ build_driver \/ driver_get \/ sleep \/ page_source
    \/ driver_quit \/ find_containers \/ ranking_loop \/ detail_loop
    \/ merge_frames \/ select_row \/ translate_col \/ build_message
    \/ refresh_access_token \/ send_kakao_memo \/ print_response

Spec == Init /\ [][Next]_vars

\* _text_after_label alone, on every generated read-area
InitLabel ==
    /\ pc = "label" /\ quits = 0 /\ pending = "none" /\ html = None
    /\ rank_box = None /\ detail = None
    /\ ranking_rows = <<>> /\ detail_rows = <<>> /\ zodiak = None
    /\ row = None /\ extracted = None /\ tr_failed = {} /\ col = 0
    /\ message = None /\ access = None /\ sends = 0 /\ delivered = 0
    /\ cause = "none"
    /\ parent \in Parents /\ label_cls \in LabelClasses /\ label_out = None

call_text_after_label ==
    /\ pc = "label"
    /\ label_out' = Some(_text_after_label(parent, label_cls))
    /\ pc' = "label_done"
    /\ UNCHANGED <<quits, pending, html, rank_box, detail, ranking_rows,
                   detail_rows, zodiak, row, extracted, tr_failed, col,
                   message, access, sends, delivered, cause, parent,
                   label_cls>>

NextLabel == call_text_after_label

SpecLabel == InitLabel /\ [][NextLabel]_vars

\* ---------------------------------------------------------------- claims
InParse == pc \in {"ranking", "detail", "merge", "parsed"}
IsNull(cell) == cell = None
TextCols == {"link", "read", "color", "key"}
ScoreCols == {"money", "love", "work", "health"}
DetailCols == TextCols \cup ScoreCols
\* every detail field of the row is null, the empty string or zero
EmptyDetail(r) ==
    /\ \A c \in TextCols : r[c] \in {None, Some(<<>>)}
    /\ \A c \in ScoreCols : r[c] \in {None, Some(0)}

\* C1: the merge is a left join driven by the ranking list: the output has
\* one row per ranking row, in ranking order, and a ranking row whose
\* target-language name matches no detail block has empty or null detail
\* fields.
C1_LeftJoinOncePerRankingRow ==
    pc = "parsed" =>
        LET out == zodiak[1]
        IN  /\ Len(out) = Len(ranking_rows)
            /\ \A i \in 1..Min(Len(out), Len(ranking_rows)) :
                /\ out[i].rank = i
                /\ out[i].sign = ranking_rows[i].kr
                /\ (\A j \in 1..Len(detail_rows) :
                        \/ detail_rows[j].sign # ranking_rows[i].kr
                        \/ ranking_rows[i].kr = NoneName)
                   => EmptyDetail(out[i])

\* C2: whatever the number of items in the ranking container and of blocks
\* in the detail container, parse_zodiac returns at most 12 rows.
C2_AtMostTwelveRows ==
    pc = "parsed" => Len(zodiak[1]) <= Cap

\* C3: a ranking entry whose source-language name is in no dictionary is in
\* the output, with its rank, and every row of that rank has all its detail
\* fields empty or zero, whatever the detail blocks are.
C3_UnmappedRankingRowHasNoDetail ==
    pc = "parsed" =>
        \A i \in 1..Len(ranking_rows) :
            ranking_rows[i].kr = NoneName =>
                /\ \E k \in 1..Len(zodiak[1]) : zodiak[1][k].rank = i
                /\ \A k \in 1..Len(zodiak[1]) :
                        zodiak[1][k].rank = i => EmptyDetail(zodiak[1][k])

\* The text of a sibling as the claim reads it: nothing for a line break,
\* the stripped text otherwise.
SiblingText(n) == IF n.kind = "br" THEN <<>> ELSE strip(n.text)
IsSeparator(n) ==
    \/ n.kind = "br"
    \/ SiblingText(n) \in {<<>>, <<":">>, <<"FWCOLON">>, <<"<br/>">>}
ExpectedText(nodes, c) ==
    LET at == find_span(nodes, c)
        hits == {i \in (at + 1)..Len(nodes) : ~IsSeparator(nodes[i])}
    IN  IF at = 0 \/ hits = {} THEN <<>>
        ELSE LET i == CHOOSE i \in hits : \A j \in hits : i <= j
             IN  strip(replace(replace(SiblingText(nodes[i]), "FWCOLON"), ":"))

\* C4: _text_after_label returns the text of the first sibling after the
\* label that is not a separator (blank, a colon, a line break), colons and
\* surrounding whitespace removed, and the empty string when there is none
\* or no label.
C4_FirstMeaningfulSibling ==
    pc = "label_done" => label_out = Some(ExpectedText(parent, label_cls))

\* C5: parse_zodiac fails exactly when the ranking container or the detail
\* container is absent; with both present it returns, and absent optional
\* elements give empty strings and zeros.
C5_FailsOnlyWithoutContainer ==
    /\ (pc = "aborted" /\ cause \in {"structure", "keyerror"}) =>
            (html[1].rank_box = None \/ html[1].detail = None)
    /\ InParse => (html[1].rank_box # None /\ html[1].detail # None)

\* C6 as claimed: a run ends normally with exactly one message delivered,
\* or aborts before any send was attempted.
C6_DeliveredOrAbortedBeforeSend ==
    /\ pc = "done" => (sends = 1 /\ delivered = 1)
    /\ pc = "aborted" => sends = 0

\* C6 amended: a run ends normally after exactly one send request, whose
\* answer is not validated, or aborts; it aborts with no send attempted
\* unless the send request itself raised; the environment, fetch,
\* structure, selection, message and token failures abort with no send, and
\* a send is attempted only with a token obtained.
C6_OneSendOrAbort ==
    /\ sends <= 1 /\ delivered <= sends
    /\ pc = "done" => sends = 1
    /\ pc = "aborted" => (sends = 0 <=> cause # "send")
    /\ sends > 0 => access = Some("tok")

\* a run that ended normally after one send whose answer reported no delivery
C6_EndsNormallyUndelivered ==
    pc = "done" /\ sends = 1 /\ delivered = 0

\* C7: once the browser is launched, fetch_html calls driver.quit() exactly
\* once before it returns or raises, and never before its finally clause.
C7_QuitExactlyOnce ==
    /\ pc \in {"import", "main", "get", "sleep", "page_source", "finally"}
            => quits = 0
    /\ (pc = "aborted" /\ cause \in {"env", "launch"}) => quits = 0
    /\ (pc \notin {"import", "main", "get", "sleep", "page_source",
                    "finally"}
         /\ ~(pc = "aborted" /\ cause \in {"env", "launch"})) => quits = 1

\* fetch_html raised after the launch, and the browser was quit once
C7_RaisedAndQuit ==
    pc = "aborted" /\ cause = "fetch" /\ quits = 1 /\ html = None

\* C8: a failed translation leaves the field equal to its extracted value,
\* every translated field is its extracted value or a stripped translator
\* output, and after a failure the run goes on to the message and the
\* send: it can abort only in the token exchange or the send.
C8_TranslationFailureKeepsText ==
    row # None =>
        /\ \A c \in tr_failed : row[1][c] = extracted[1][c]
        /\ \A i \in 1..Len(TranslatedCols) :
              LET c == TranslatedCols[i]
              IN  \/ row[1][c] = extracted[1][c]
                  \/ row[1][c] \in {Some(strip(o)) : o \in TranslatorOutputs}
        /\ (tr_failed # {} /\ pc = "aborted") => cause \in {"token", "send"}

\* all three translations failed and the run went on to a delivered message
C8_FailedAndSent ==
    pc = "done" /\ tr_failed = {"read", "color", "key"} /\ delivered = 1

IsPermutation(seq, of) ==
    /\ Len(seq) = Len(of)
    /\ \A i \in 1..Len(of) : \E j \in 1..Len(seq) : seq[j] = of[i]
WellFormedTwelve(h) ==
    /\ h.rank_box # None /\ h.detail # None
    /\ \A i \in 1..Len(h.rank_box[1]) : h.rank_box[1][i].nested = <<>>
    /\ IsPermutation([i \in 1..Len(h.rank_box[1]) |-> h.rank_box[1][i].span],
                     SignsJP)
    /\ IsPermutation([i \in 1..Len(h.detail[1]) |-> h.detail[1][i].id],
                     SignIds)

\* C9: markup with the twelve signs once each in both lists gives twelve
\* rows, ranked 1..12 in order, none with a null detail field.
C9_TwelveMatchedRows ==
    (pc = "parsed" /\ WellFormedTwelve(html[1])) =>
        /\ Len(zodiak[1]) = Cap
        /\ \A i \in 1..Len(zodiak[1]) :
            /\ zodiak[1][i].rank = i
            /\ zodiak[1][i].sign # NoneName
            /\ \A c \in DetailCols : ~IsNull(zodiak[1][i][c])

\* twelve and twelve, the two lists in different orders
C9_TwelveInDifferentOrders ==
    /\ pc = "parsed" /\ WellFormedTwelve(html[1])
    /\ html[1].rank_box[1][1].span = "uoza"
    /\ html[1].detail[1][1].id = "kani"

\* C10: the ranking pass makes one entry per direct <li> of the ranking
\* container, capped at 12, ranked by its position among the direct items.
C10_DirectItemsOnly ==
    pc \in {"detail", "merge", "parsed"} =>
        LET direct == rank_box[1]
        IN  /\ Len(ranking_rows) = Min(Cap, Len(direct))
            /\ \A i \in 1..Min(Len(ranking_rows), Len(direct)) :
                /\ ranking_rows[i].rank = i
                /\ ranking_rows[i].jp = li_jp_name(direct[i])

====
